---------------------------- MODULE Spec2Model ----------------------------
(***************************************************************************)
(* Obstacle-avoiding edge routing of the LogicFlow avoidance plugins.      *)
(*                                                                         *)
(*   AvoidanceEdgePlugin  (src/unnamed/part_000): rerouteEdge,             *)
(*       calculatePath, isPathIntersectingNode, isLineIntersectingRect,    *)
(*       doLineSegmentsIntersect, _init, destroy                           *)
(*   AvoidancePlugin      (src/packages/extension/src/tools/avoidance/     *)
(*       index.ts): updateEdgePath, getExpandedNodeBox,                    *)
(*       isLineIntersectRect, isLineSegmentsIntersect, initialize,         *)
(*       detachEvents, enable, disable, setOptions, recalculateAllEdges    *)
(*                                                                         *)
(* Spec routes the edge of a diagram, GeometrySpec calls                   *)
(* isLineIntersectingRect on its own, LifecycleSpec runs the plugins'      *)
(* interfaces and the host's events.                                       *)
(*                                                                         *)
(* Coordinates are JavaScript numbers.  The diagrams of this model have    *)
(* even integer anchor coordinates and even node sizes, so every           *)
(* division by two of the code is exact and is written \div 2.             *)
(***************************************************************************)
EXTENDS Integers, Sequences, FiniteSets

(***************************************************************************)
(* Values                                                                  *)
(***************************************************************************)
\* an undefined (or null) point of the source: a record that is no point
Undefined == [undefined |-> TRUE]

\* bestPath = null (part_000:160), and an edge model without point list: the
\* code reads pointsList only as "pointsList && pointsList.length > 0" and
\* "pointsList || []", which do not tell undefined from the empty list
NoPath == <<>>

Point(px, py) == [x |-> px, y |-> py]

\* let minObstructions = Infinity  (part_000:161): above every count
Infinity == 1000000

\* a lattice of eight offsets
offsetsWithEighty == <<0, 20, -20, 40, -40, 60, -60, 80>>

\* const offsets = [0, 20, -20, 40, -40, 60, -60]  (part_000:164)
offsets == <<0, 20, -20, 40, -40, 60, -60>>

Max(a, b) == IF a >= b THEN a ELSE b
Min(a, b) == IF a <= b THEN a ELSE b

(***************************************************************************)
(* Host node model.  A node is [id, x, y, width, height, anchorPosition]   *)
(* with (x, y) its centre; getBBox is the host's bounding box of it and    *)
(* getAnchorPosition what the node answers when asked for its anchor       *)
(* without an argument (a point, or Undefined).                            *)
(***************************************************************************)
Node(i, cx, cy, w, h, a) ==
    [id |-> i, x |-> cx, y |-> cy, width |-> w, height |-> h, anchorPosition |-> a]

getAnchorPosition(node) == node.anchorPosition

getBBox(node) ==
    [minX |-> node.x - node.width \div 2, minY |-> node.y - node.height \div 2,
     maxX |-> node.x + node.width \div 2, maxY |-> node.y + node.height \div 2]

(***************************************************************************)
(* AvoidanceEdgePlugin: geometry (part_000:253-337)                        *)
(*                                                                         *)
(* A value the code names once and reads several times (val, o1..o4,       *)
(* segments, ...) is the parameter of a local operator here.               *)
(***************************************************************************)
orientation(p, q, r) ==
    LET sign(val) == IF val = 0 THEN 0 ELSE IF val > 0 THEN 1 ELSE 2
    IN  sign((q.y - p.y) * (r.x - q.x) - (q.x - p.x) * (r.y - q.y))

onSegment(p, q, r) ==
    /\ q.x <= Max(p.x, r.x) /\ q.x >= Min(p.x, r.x)
    /\ q.y <= Max(p.y, r.y) /\ q.y >= Min(p.y, r.y)

doLineSegmentsIntersect(p1, p2, p3, p4) ==
    LET intersect(o1, o2, o3, o4) ==
            IF o1 # o2 /\ o3 # o4 THEN TRUE
            ELSE IF o1 = 0 /\ onSegment(p1, p3, p2) THEN TRUE
            ELSE IF o2 = 0 /\ onSegment(p1, p4, p2) THEN TRUE
            ELSE IF o3 = 0 /\ onSegment(p3, p1, p4) THEN TRUE
            ELSE IF o4 = 0 /\ onSegment(p3, p2, p4) THEN TRUE
            ELSE FALSE
    IN  intersect(orientation(p1, p2, p3), orientation(p1, p2, p4),
                  orientation(p3, p4, p1), orientation(p3, p4, p2))

\* the four sides of rect, in the order of part_000:289-294
rectSegments(rect) ==
    << <<Point(rect.minX, rect.minY), Point(rect.maxX, rect.minY)>>,
       <<Point(rect.maxX, rect.minY), Point(rect.maxX, rect.maxY)>>,
       <<Point(rect.maxX, rect.maxY), Point(rect.minX, rect.maxY)>>,
       <<Point(rect.minX, rect.maxY), Point(rect.minX, rect.minY)>> >>

\* a point test that leaves out the rectangle's boundary
pointStrictlyInRect(p, rect) ==
    p.x > rect.minX /\ p.x < rect.maxX /\ p.y > rect.minY /\ p.y < rect.maxY

pointInRect(p, rect) ==
    p.x >= rect.minX /\ p.x <= rect.maxX /\ p.y >= rect.minY /\ p.y <= rect.maxY

isLineIntersectingRect(p1, p2, rect) ==
    LET anySide(segments) ==
            \E k \in 1..Len(segments) :
               doLineSegmentsIntersect(p1, p2, segments[k][1], segments[k][2])
    IN  IF p1.x = p2.x /\ p1.y = p2.y THEN pointInRect(p1, rect)
        ELSE IF pointInRect(p1, rect) THEN TRUE
        ELSE IF pointInRect(p2, rect) THEN TRUE
        ELSE anySide(rectSegments(rect))

isPathIntersectingNode(pathPoints, node) ==
    LET anySegment(nodeBBox) ==
            \E i \in 1..(Len(pathPoints) - 1) :
               isLineIntersectingRect(pathPoints[i], pathPoints[i + 1], nodeBBox)
    IN  IF Len(pathPoints) < 2 THEN FALSE
        ELSE anySegment(getBBox(node))

\* checkAndCountObstructions (part_000:175-183) and the inline count of the
\* double-bend loop (part_000:213-218): the number of obstacle nodes hit
checkAndCountObstructions(p, obstacles) ==
    Cardinality({obsNode \in obstacles : isPathIntersectingNode(p, obsNode)})

(***************************************************************************)
(* AvoidanceEdgePlugin.calculatePath (part_000:120-245)                    *)
(*                                                                         *)
(* The search state of the two candidate loops is the record               *)
(*   [bestPath, minObstructions, scored, obsCount]                         *)
(* where scored counts the candidate paths whose obstructions were         *)
(* counted so far and obsCount is the count of the last of them.           *)
(***************************************************************************)
\* a selector that keeps a candidate without its end point
scoreDroppingEnd(st, p, obsCount) ==
    IF obsCount < st.minObstructions
    THEN [bestPath |-> SubSeq(p, 1, Len(p) - 1), minObstructions |-> obsCount,
          scored |-> st.scored + 1, obsCount |-> obsCount]
    ELSE [st EXCEPT !.scored = st.scored + 1, !.obsCount = obsCount]

\* a selector that lowers minObstructions but keeps the first candidate as
\* bestPath
scoreKeepingFirst(st, p, obsCount) ==
    IF obsCount < st.minObstructions
    THEN [bestPath |-> IF st.bestPath = NoPath THEN p ELSE st.bestPath,
          minObstructions |-> obsCount,
          scored |-> st.scored + 1, obsCount |-> obsCount]
    ELSE [st EXCEPT !.scored = st.scored + 1, !.obsCount = obsCount]

\* if (obsCount < minObstructions) { minObstructions = obsCount; bestPath = p }
\* for a candidate p whose count is obsCount
score(st, p, obsCount) ==
    IF obsCount < st.minObstructions
    THEN [bestPath |-> p, minObstructions |-> obsCount,
          scored |-> st.scored + 1, obsCount |-> obsCount]
    ELSE [st EXCEPT !.scored = st.scored + 1, !.obsCount = obsCount]

\* path1 of part_000:169-172, the "horizontal first" single-bend candidate
path1(startPoint, endPoint, dx, dy) ==
    <<Point(startPoint.x, startPoint.y),
      Point((startPoint.x + endPoint.x) \div 2 + dx, startPoint.y + dy),
      Point(endPoint.x, endPoint.y)>>

\* path2 of part_000:170-173, the "vertical first" single-bend candidate
path2(startPoint, endPoint, dx, dy) ==
    <<Point(startPoint.x, startPoint.y),
      Point((startPoint.x + endPoint.x) \div 2 + dx, endPoint.y + dy),
      Point(endPoint.x, endPoint.y)>>

\* candidatePath of part_000:209-211, the double-bend candidate
candidatePath(startPoint, endPoint, dx1, dy1, dx2, dy2) ==
    <<Point(startPoint.x, startPoint.y),
      Point(startPoint.x + dx1, (startPoint.y + endPoint.y) \div 2 + dy1),
      Point(endPoint.x + dx2, (startPoint.y + endPoint.y) \div 2 + dy2),
      Point(endPoint.x, endPoint.y)>>

\* an inner loop that still counts path2 after path1 was found clear
RECURSIVE singleBendDyCountingBoth(_, _, _, _, _, _, _)
singleBendDyCountingBoth(startPoint, endPoint, obstacles, pathIsObstructed, dx, j, st) ==
    IF j > Len(offsets) THEN st
    ELSE IF dx = 0 /\ offsets[j] = 0 /\ pathIsObstructed
    THEN singleBendDyCountingBoth(startPoint, endPoint, obstacles, pathIsObstructed,
                                  dx, j + 1, st)
    ELSE LET count(st0, p) == score(st0, p, checkAndCountObstructions(p, obstacles))
             afterPath2(st2) ==
                 IF st2.minObstructions = 0 THEN st2
                 ELSE singleBendDyCountingBoth(startPoint, endPoint, obstacles,
                                               pathIsObstructed, dx, j + 1, st2)
             afterPath1(st1) ==
                 afterPath2(count(st1, path2(startPoint, endPoint, dx, offsets[j])))
         IN  afterPath1(count(st, path1(startPoint, endPoint, dx, offsets[j])))

\* the inner loop "for (const dy of offsets)" of part_000:166-198, from the
\* j-th offset on
RECURSIVE singleBendDy(_, _, _, _, _, _, _)
singleBendDy(startPoint, endPoint, obstacles, pathIsObstructed, dx, j, st) ==
    IF j > Len(offsets) THEN st
    ELSE IF dx = 0 /\ offsets[j] = 0 /\ pathIsObstructed
    THEN singleBendDy(startPoint, endPoint, obstacles, pathIsObstructed, dx, j + 1, st)
    ELSE LET count(st0, p) == score(st0, p, checkAndCountObstructions(p, obstacles))
             afterPath2(st2) ==
                 IF st2.obsCount = 0 THEN st2
                 ELSE singleBendDy(startPoint, endPoint, obstacles, pathIsObstructed,
                                   dx, j + 1, st2)
             afterPath1(st1) ==
                 IF st1.obsCount = 0 THEN st1
                 ELSE afterPath2(count(st1, path2(startPoint, endPoint, dx, offsets[j])))
         IN  afterPath1(count(st, path1(startPoint, endPoint, dx, offsets[j])))

\* the outer loop "for (const dx of offsets)" of part_000:165-200
RECURSIVE singleBend(_, _, _, _, _, _)
singleBend(startPoint, endPoint, obstacles, pathIsObstructed, i, st) ==
    IF i > Len(offsets) THEN st
    ELSE LET next(st1) ==
                 IF st1.minObstructions = 0 THEN st1
                 ELSE singleBend(startPoint, endPoint, obstacles, pathIsObstructed,
                                 i + 1, st1)
         IN  next(singleBendDy(startPoint, endPoint, obstacles, pathIsObstructed,
                               offsets[i], 1, st))

\* the loop "for (const dy2 of offsets)" of part_000:208-224
RECURSIVE doubleBendDy2(_, _, _, _, _, _, _, _)
doubleBendDy2(startPoint, endPoint, obstacles, dx1, dy1, dx2, l, st) ==
    IF l > Len(offsets) THEN st
    ELSE LET count(st0, p) == score(st0, p, checkAndCountObstructions(p, obstacles))
             next(st1) ==
                 IF st1.minObstructions = 0 THEN st1
                 ELSE doubleBendDy2(startPoint, endPoint, obstacles, dx1, dy1, dx2,
                                    l + 1, st1)
         IN  next(count(st, candidatePath(startPoint, endPoint, dx1, dy1, dx2, offsets[l])))

\* the loop "for (const dx2 of offsets)" of part_000:207-226
RECURSIVE doubleBendDx2(_, _, _, _, _, _, _)
doubleBendDx2(startPoint, endPoint, obstacles, dx1, dy1, k, st) ==
    IF k > Len(offsets) THEN st
    ELSE LET next(st1) ==
                 IF st1.minObstructions = 0 THEN st1
                 ELSE doubleBendDx2(startPoint, endPoint, obstacles, dx1, dy1, k + 1, st1)
         IN  next(doubleBendDy2(startPoint, endPoint, obstacles, dx1, dy1, offsets[k], 1, st))

\* the loop "for (const dy1 of offsets)" of part_000:206-228
RECURSIVE doubleBendDy1(_, _, _, _, _, _)
doubleBendDy1(startPoint, endPoint, obstacles, dx1, j, st) ==
    IF j > Len(offsets) THEN st
    ELSE LET next(st1) ==
                 IF st1.minObstructions = 0 THEN st1
                 ELSE doubleBendDy1(startPoint, endPoint, obstacles, dx1, j + 1, st1)
         IN  next(doubleBendDx2(startPoint, endPoint, obstacles, dx1, offsets[j], 1, st))

\* the loop "for (const dx1 of offsets)" of part_000:205-230
RECURSIVE doubleBend(_, _, _, _, _)
doubleBend(startPoint, endPoint, obstacles, i, st) ==
    IF i > Len(offsets) THEN st
    ELSE LET next(st1) ==
                 IF st1.minObstructions = 0 THEN st1
                 ELSE doubleBend(startPoint, endPoint, obstacles, i + 1, st1)
         IN  next(doubleBendDy1(startPoint, endPoint, obstacles, offsets[i], 1, st))

\* the candidate search of part_000:160-231: the single-bend loops, then, if
\* they found no clear path, the double-bend loops
searchBends(startPoint, endPoint, obstacles, pathIsObstructed) ==
    LET second(st1) ==
            IF st1.minObstructions > 0
            THEN doubleBend(startPoint, endPoint, obstacles, 1, st1)
            ELSE st1
    IN  second(singleBend(startPoint, endPoint, obstacles, pathIsObstructed, 1,
                          [bestPath |-> NoPath, minObstructions |-> Infinity,
                           scored |-> 0, obsCount |-> Infinity]))

\* a calculatePath that runs the candidate search whether or not the direct
\* path is obstructed
calculatePathAlwaysSearching(edge, sourceNode, targetNode, allNodes) ==
    LET startPoint == IF edge.startPoint # Undefined THEN edge.startPoint
                      ELSE getAnchorPosition(sourceNode)
        endPoint   == IF edge.endPoint # Undefined THEN edge.endPoint
                      ELSE getAnchorPosition(targetNode)
        obstacles  == {node \in allNodes : node.id # sourceNode.id /\ node.id # targetNode.id}
        potentialPath == <<Point(startPoint.x, startPoint.y), Point(endPoint.x, endPoint.y)>>
        pathIsObstructed == \E obsNode \in obstacles : isPathIntersectingNode(potentialPath, obsNode)
        best(st) == [path |-> st.bestPath, scored |-> st.scored,
                     minObstructions |-> st.minObstructions]
    IN  IF startPoint = Undefined \/ endPoint = Undefined
        THEN [path |-> edge.pointsList, scored |-> 0, minObstructions |-> Infinity]
        ELSE best(searchBends(startPoint, endPoint, obstacles, pathIsObstructed))

\* a calculatePath that answers the direct line for an edge that already
\* stores points
calculatePathFromStoredPoints(edge, sourceNode, targetNode, allNodes) ==
    LET startPoint == IF edge.startPoint # Undefined THEN edge.startPoint
                      ELSE getAnchorPosition(sourceNode)
        endPoint   == IF edge.endPoint # Undefined THEN edge.endPoint
                      ELSE getAnchorPosition(targetNode)
        obstacles  == {node \in allNodes : node.id # sourceNode.id /\ node.id # targetNode.id}
        potentialPath == <<Point(startPoint.x, startPoint.y), Point(endPoint.x, endPoint.y)>>
        pathIsObstructed == \E obsNode \in obstacles : isPathIntersectingNode(potentialPath, obsNode)
        best(st) == [path |-> st.bestPath, scored |-> st.scored,
                     minObstructions |-> st.minObstructions]
    IN  IF startPoint = Undefined \/ endPoint = Undefined
        THEN [path |-> edge.pointsList, scored |-> 0, minObstructions |-> Infinity]
        ELSE IF ~pathIsObstructed \/ Len(edge.pointsList) > 0
        THEN [path |-> potentialPath, scored |-> 0, minObstructions |-> Infinity]
        ELSE best(searchBends(startPoint, endPoint, obstacles, pathIsObstructed))

\* edge is the edge model [startPoint, endPoint, pointsList].  The result is
\* [path, scored, minObstructions]: the returned point list, the number of
\* bend candidates scored on the way and the count that ranked the best of
\* them (Infinity when none was scored).  select is the choice of part_000:234-244 for the
\* outcome st of the candidate search.
calculatePath(edge, sourceNode, targetNode, allNodes) ==
    LET startPoint == IF edge.startPoint # Undefined THEN edge.startPoint
                      ELSE getAnchorPosition(sourceNode)
        endPoint   == IF edge.endPoint # Undefined THEN edge.endPoint
                      ELSE getAnchorPosition(targetNode)
        obstacles  == {node \in allNodes : node.id # sourceNode.id /\ node.id # targetNode.id}
        potentialPath == <<Point(startPoint.x, startPoint.y), Point(endPoint.x, endPoint.y)>>
        pathIsObstructed == \E obsNode \in obstacles : isPathIntersectingNode(potentialPath, obsNode)
        select(st) ==
            IF st.bestPath # NoPath /\ st.minObstructions = 0
            THEN [path |-> st.bestPath, scored |-> st.scored,
                  minObstructions |-> st.minObstructions]
            ELSE IF st.bestPath # NoPath
            THEN [path |-> st.bestPath, scored |-> st.scored,
                  minObstructions |-> st.minObstructions]
            ELSE IF Len(edge.pointsList) > 0
            THEN [path |-> edge.pointsList, scored |-> st.scored,
                  minObstructions |-> st.minObstructions]
            ELSE [path |-> potentialPath, scored |-> st.scored,
                  minObstructions |-> st.minObstructions]
    IN  IF startPoint = Undefined \/ endPoint = Undefined
        THEN [path |-> edge.pointsList, scored |-> 0, minObstructions |-> Infinity]
        ELSE IF ~pathIsObstructed
        THEN [path |-> potentialPath, scored |-> 0, minObstructions |-> Infinity]
        ELSE select(searchBends(startPoint, endPoint, obstacles, pathIsObstructed))

(***************************************************************************)
(* AvoidancePlugin: geometry (index.ts:228-329).  orientation and          *)
(* onSegment of index.ts:294-307 are those of part_000:309-318.            *)
(***************************************************************************)
\* a box that is extended by the padding in width and height only once
getNodeBoxPaddedOnce(nodeModel, padding) ==
    [x |-> nodeModel.x - nodeModel.width \div 2 - padding,
     y |-> nodeModel.y - nodeModel.height \div 2 - padding,
     width |-> nodeModel.width + padding,
     height |-> nodeModel.height + padding]

\* a Rect of index.ts:220 is [x, y, width, height], (x, y) its least corner
getExpandedNodeBox(nodeModel, padding) ==
    [x |-> nodeModel.x - nodeModel.width \div 2 - padding,
     y |-> nodeModel.y - nodeModel.height \div 2 - padding,
     width |-> nodeModel.width + padding * 2,
     height |-> nodeModel.height + padding * 2]

isLineSegmentsIntersect(p1, q1, p2, q2) ==
    LET intersect(o1, o2, o3, o4) ==
            IF o1 # o2 /\ o3 # o4 THEN TRUE
            ELSE IF o1 = 0 /\ onSegment(p1, p2, q1) THEN TRUE
            ELSE IF o2 = 0 /\ onSegment(p1, q2, q1) THEN TRUE
            ELSE IF o3 = 0 /\ onSegment(p2, p1, q2) THEN TRUE
            ELSE IF o4 = 0 /\ onSegment(p2, q1, q2) THEN TRUE
            ELSE FALSE
    IN  intersect(orientation(p1, q1, p2), orientation(p1, q1, q2),
                  orientation(p2, q2, p1), orientation(p2, q2, q1))

isLineIntersectRect(p1, p2, rect) ==
    LET test(rectMinX, rectMaxX, rectMinY, rectMaxY) ==
            IF \/ (p1.x >= rectMinX /\ p1.x <= rectMaxX /\ p1.y >= rectMinY /\ p1.y <= rectMaxY)
               \/ (p2.x >= rectMinX /\ p2.x <= rectMaxX /\ p2.y >= rectMinY /\ p2.y <= rectMaxY)
            THEN TRUE
            ELSE IF isLineSegmentsIntersect(p1, p2, Point(rectMinX, rectMinY), Point(rectMaxX, rectMinY))
            THEN TRUE
            ELSE IF isLineSegmentsIntersect(p1, p2, Point(rectMinX, rectMaxY), Point(rectMaxX, rectMaxY))
            THEN TRUE
            ELSE IF isLineSegmentsIntersect(p1, p2, Point(rectMinX, rectMinY), Point(rectMinX, rectMaxY))
            THEN TRUE
            ELSE IF isLineSegmentsIntersect(p1, p2, Point(rectMaxX, rectMinY), Point(rectMaxX, rectMaxY))
            THEN TRUE
            ELSE FALSE
    IN  test(rect.x, rect.x + rect.width, rect.y, rect.y + rect.height)

(***************************************************************************)
(* AvoidancePlugin.updateEdgePath: the point list it computes              *)
(* (index.ts:116-188)                                                      *)
(***************************************************************************)
\* the loops of index.ts:141-150 and 162-170: some segment of candidatePath
\* intersects some obstacle
candidateCollision(path, obstacles) ==
    \E i \in 1..(Len(path) - 1) : \E k \in 1..Len(obstacles) :
       isLineIntersectRect(path[i], path[i + 1], obstacles[k])

\* the filter of index.ts:186-188: a point equal to its predecessor is dropped
RECURSIVE filterDuplicates(_, _)
filterDuplicates(self, index) ==
    IF index > Len(self) THEN <<>>
    ELSE IF index = 1 \/ ~(self[index].x = self[index - 1].x /\ self[index].y = self[index - 1].y)
    THEN <<self[index]>> \o filterDuplicates(self, index + 1)
    ELSE filterDuplicates(self, index + 1)

\* the rerouting around obstacle, the first one the direct line collides with
\* (index.ts:131-181)
avoidObstacle(startPoint, endPoint, obstacle, obstacles, avoidPadding) ==
    LET second(path) ==
            IF ~candidateCollision(path, obstacles) THEN path
            ELSE <<startPoint, endPoint>>
        first(path) ==
            IF ~candidateCollision(path, obstacles) THEN path
            ELSE second(<<startPoint,
                          Point(obstacle.x - avoidPadding, startPoint.y),
                          Point(obstacle.x - avoidPadding, endPoint.y),
                          endPoint>>)
    IN  first(<<startPoint,
                Point(startPoint.x, obstacle.y - avoidPadding),
                Point(endPoint.x, obstacle.y - avoidPadding),
                endPoint>>)

\* obstacles of index.ts:116-122: the expanded boxes of the nodes that are
\* neither the edge's source nor its target, in the host's order
expandedObstacles(nodes, source, target, avoidPadding) ==
    LET boxes(others) ==
            [k \in 1..Len(others) |-> getExpandedNodeBox(others[k], avoidPadding)]
    IN  boxes(SelectSeq(nodes, LAMBDA node : node.id # source.id /\ node.id # target.id))

\* newPointsList of index.ts:124-188 for the obstacles in the host's order
newPointsList(startPoint, endPoint, obstacles, avoidPadding) ==
    LET route(colliding) ==
            IF colliding = {} THEN <<startPoint, endPoint>>
            ELSE avoidObstacle(startPoint, endPoint,
                               obstacles[CHOOSE k \in colliding : \A k2 \in colliding : k <= k2],
                               obstacles, avoidPadding)
    IN  filterDuplicates(
            route({k \in 1..Len(obstacles) :
                      isLineIntersectRect(startPoint, endPoint, obstacles[k])}), 1)

(***************************************************************************)
(* The host's event registry and the plugins' use of it.  The registry is  *)
(* the sequence of the registered [event, callback] pairs: lf.on appends   *)
(* one, lf.off(event, callback) removes the pairs of that event whose      *)
(* callback is that very function.  A callback is named by the expression  *)
(* that yields the function object: this.handleEdgeChange and              *)
(* this.boundFunctions.handleEdgeChange (the result of bind) are two       *)
(* functions.                                                              *)
(***************************************************************************)
on(ls, event, callback) == Append(ls, [event |-> event, callback |-> callback])

off(ls, event, callback) ==
    SelectSeq(ls, LAMBDA l : ~(l.event = event /\ l.callback = callback))

\* AvoidancePlugin.initialize (index.ts:28-36)
initialize(ls) ==
    on(on(on(on(on(ls, "graph:rendered", "this.handleGraphRendered"),
                "edge:add", "this.handleEdgeAdd"),
             "node:move:end", "this.handleNodeMoveEnd"),
          "edge:change:source:end", "this.handleEdgeEndpointChange"),
       "edge:change:target:end", "this.handleEdgeEndpointChange")

\* a detachEvents that leaves the edge:add listener registered
detachEventsButEdgeAdd(ls) ==
    off(off(off(off(ls, "graph:rendered", "this.handleGraphRendered"),
                "node:move:end", "this.handleNodeMoveEnd"),
            "edge:change:source:end", "this.handleEdgeEndpointChange"),
        "edge:change:target:end", "this.handleEdgeEndpointChange")

\* AvoidancePlugin.detachEvents (index.ts:38-45)
detachEvents(ls) ==
    off(off(off(off(off(ls, "graph:rendered", "this.handleGraphRendered"),
                    "edge:add", "this.handleEdgeAdd"),
                "node:move:end", "this.handleNodeMoveEnd"),
            "edge:change:source:end", "this.handleEdgeEndpointChange"),
        "edge:change:target:end", "this.handleEdgeEndpointChange")

\* the registrations of AvoidanceEdgePlugin._init (part_000:15-22)
_init(ls) ==
    on(on(on(on(on(on(ls, "edge:add", "this.handleEdgeChange"),
                   "node:dnd-add", "this.handleNodeAdd"),
                "node:move", "this.handleNodeMove"),
             "edge:change:target", "this.handleEdgeChange"),
          "edge:change:source", "this.handleEdgeChange"),
       "graph:rendered", "this.handleGraphRendered")

\* the removals of AvoidanceEdgePlugin.destroy (part_000:341-346)
destroy(ls) ==
    off(off(off(off(off(off(ls, "edge:add", "this.boundFunctions.handleEdgeChange"),
                        "node:dnd-add", "this.boundFunctions.handleNodeAdd"),
                    "node:move", "this.boundFunctions.handleNodeMove"),
                "edge:change:target", "this.boundFunctions.handleEdgeChange"),
            "edge:change:source", "this.boundFunctions.handleEdgeChange"),
        "graph:rendered", "this.boundFunctions.handleGraphRendered")

\* { ...a, ...b } for option records: the keys of b override those of a
spread(a, b) ==
    [k \in DOMAIN a \cup DOMAIN b |-> IF k \in DOMAIN b THEN b[k] ELSE a[k]]

(***************************************************************************)
(* Bounds and the diagrams of the model                                    *)
(***************************************************************************)
\* the most nodes a diagram holds besides the edge's source and target
MaxObstacles == 2

\* the most routing requests of one run
MaxCalls == 2

\* the source node is centred at the origin, the target node at one of Ends
\* (the first makes start and end coincide)
Start == Point(0, 0)
Ends == {Point(0, 0), Point(200, 0), Point(200, 240)}
SourceNode(a) == Node("source", Start.x, Start.y, 20, 20, a)
TargetNode(end, a) == Node("target", end.x, end.y, 20, 20, a)

\* the nodes a diagram may hold besides source and target:
\*   box  (80,-20)-(120,20),   across the line from (0,0) to (200,0)
\*   up   (8,2)-(100,300),     above the x axis
\*   low  (102,-300)-(190,0),  below the x axis and right of x = 100
\*   bar  (90,0)-(210,20),     under the end point (200,0)
\*   wall (170,-300)-(180,50), across the x axis before the end point (200,0)
OtherNodes ==
    { Node("box", 100, 0, 40, 40, Undefined),
      Node("up", 54, 151, 92, 298, Undefined),
      Node("low", 146, -150, 88, 300, Undefined),
      Node("bar", 150, 10, 120, 20, Undefined),
      Node("wall", 175, -125, 10, 350, Undefined) }

\* the order in which the host lists the nodes of a diagram
NodeOrder == <<"source", "target", "box", "up", "low", "bar", "wall">>

\* the sets of nodes a diagram holds besides source and target
Diagrams == {others \in SUBSET OtherNodes : Cardinality(others) <= MaxObstacles}

\* what a node may answer to getAnchorPosition(...): nothing, or its centre
AnchorAnswers(node) == {Undefined, Point(node.x, node.y)}

\* the two plugins; a diagram has one of them installed
Plugins == {"AvoidanceEdgePlugin", "AvoidancePlugin"}

\* the coordinates of the segments and rectangles isLineIntersectingRect is
\* called with on its own are 0..MaxCoord
MaxCoord == 3
Coords == 0..MaxCoord
Rects == {r \in [minX : Coords, minY : Coords, maxX : Coords, maxY : Coords] :
             r.minX <= r.maxX /\ r.minY <= r.maxY}

\* no call of isLineIntersectingRect on its own
NoTest == [called |-> FALSE]

\* defaultOptions of index.ts:12-15, and the paddings a user may configure
defaultOptions == [avoidPadding |-> 10, enabled |-> TRUE]
Paddings == {0, 10, 20}

\* the option records a user may pass to the constructor and to setOptions:
\* each key is given or left out
UserOptions ==
    {[avoidPadding |-> p, enabled |-> e] : p \in Paddings, e \in BOOLEAN}
        \cup {[avoidPadding |-> p] : p \in Paddings}
        \cup {[enabled |-> e] : e \in BOOLEAN}
        \cup {<<>>}

\* the events the host emits
Events == {"graph:rendered", "edge:add", "node:dnd-add", "node:move", "node:move:end",
           "edge:change:source", "edge:change:target",
           "edge:change:source:end", "edge:change:target:end"}

(***************************************************************************)
(* State                                                                   *)
(***************************************************************************)
VARIABLES
    plugin,     \* the plugin installed on the diagram
    options,    \* AvoidancePlugin.options
    allNodes,   \* the node models of the diagram
    edge,       \* the edge model: [sourceNodeId, targetNodeId, startPoint, endPoint,
                \* pointsList]
    before,     \* the points the edge stored when the last routing request began
    op,         \* the last operation
    calls,      \* the routing requests so far
    missing,    \* the last routing request found the start or the end point missing
    newPath,    \* what calculatePath returned to the last rerouteEdge
    scored,     \* the bend candidates calculatePath scored in that call
    minObstructions, \* the count by which that call ranked its best candidate
    applied,    \* the point lists the last routing request applied to the edge
    returned,   \* every path calculatePath has returned so far
    obstacleRects,  \* the obstacles the last updateEdgePath collected (index.ts:117)
    intersectionTest, \* a call of isLineIntersectingRect: [p1, p2, rect, called, result]
    listeners,  \* the host's event registry
    destroyed,  \* AvoidanceEdgePlugin.destroy has been called
    request     \* the last call of the plugin's interface or event of the host

routingVars == <<plugin, allNodes, edge, before, op, calls, missing, newPath,
                 scored, minObstructions, applied, returned, obstacleRects>>

pluginVars == <<options, listeners, destroyed, request>>

vars == <<routingVars, pluginVars, intersectionTest>>

\* edgeModel.sourceNode and edgeModel.targetNode, lf.getNodeModelById(edge.sourceNodeId)
\* and lf.getNodeModelById(edge.targetNodeId)
sourceNode == CHOOSE node \in allNodes : node.id = edge.sourceNodeId
targetNode == CHOOSE node \in allNodes : node.id = edge.targetNodeId

\* the points calculatePath works with: the edge model's, else the node's answer
startAnchor == IF edge.startPoint # Undefined THEN edge.startPoint
               ELSE getAnchorPosition(sourceNode)
endAnchor   == IF edge.endPoint # Undefined THEN edge.endPoint
               ELSE getAnchorPosition(targetNode)
anchorMissing == startAnchor = Undefined \/ endAnchor = Undefined

\* lf.getGraphElements().nodes: the nodes of the diagram in the host's order
getGraphElements ==
    LET ids == SelectSeq(NodeOrder, LAMBDA i : \E node \in allNodes : node.id = i)
    IN  [k \in 1..Len(ids) |-> CHOOSE node \in allNodes : node.id = ids[k]]

\* the constructors (index.ts:17-26, part_000:9-13); AvoidanceEdgePlugin has
\* no options, the model leaves the default ones in their place
constructor(userOptions) ==
    /\ options = IF plugin = "AvoidancePlugin" THEN spread(defaultOptions, userOptions)
                 ELSE defaultOptions
    /\ listeners = IF plugin = "AvoidanceEdgePlugin" THEN _init(<<>>)
                   ELSE IF spread(defaultOptions, userOptions).enabled THEN initialize(<<>>)
                   ELSE <<>>
    /\ destroyed = FALSE
    /\ request = [name |-> "constructor"]

\* An edge from the source node to the target node, or a loop from the
\* source node to itself, which ends where it starts (the diagram then still
\* holds the target node, away from the source node).  With
\* AvoidanceEdgePlugin the edge is new (no stored points), and a node's
\* answer to getAnchorPosition() matters only when the edge model lacks a
\* point on that node: it is left Undefined otherwise.  AvoidancePlugin
\* never asks a node for its anchor.
Init ==
    /\ plugin \in Plugins
    /\ \E end \in Ends, others \in Diagrams, tid \in {"target", "source"},
          sp \in {Undefined, Start}, sa \in AnchorAnswers(SourceNode(Undefined)) :
          \E ep \in {Undefined, IF tid = "source" THEN Start ELSE end},
             ta \in AnchorAnswers(TargetNode(end, Undefined)),
             pl \in {<<>>, <<Start, IF tid = "source" THEN Start ELSE end>>} :
             /\ tid = "source" => end # Start
             /\ (\/ plugin = "AvoidancePlugin"
                 \/ (sp # Undefined /\ (tid = "target" \/ ep # Undefined)))
                   => sa = Undefined
             /\ (ep # Undefined \/ plugin = "AvoidancePlugin" \/ tid = "source")
                   => ta = Undefined
             /\ plugin = "AvoidanceEdgePlugin" => pl = <<>>
             /\ allNodes = {SourceNode(sa), TargetNode(end, ta)} \cup others
             /\ edge = [sourceNodeId |-> "source", targetNodeId |-> tid,
                        startPoint |-> sp, endPoint |-> ep, pointsList |-> pl]
    /\ \E padding \in Paddings :
          /\ plugin = "AvoidanceEdgePlugin" => padding = defaultOptions.avoidPadding
          /\ constructor([avoidPadding |-> padding])
    /\ before = <<>>
    /\ op = "init"
    /\ calls = 0
    /\ missing = FALSE
    /\ newPath = <<>>
    /\ scored = 0
    /\ minObstructions = Infinity
    /\ applied = <<>>
    /\ returned = {}
    /\ obstacleRects = <<>>
    /\ intersectionTest = NoTest

(***************************************************************************)
(* AvoidanceEdgePlugin.rerouteEdge (part_000:63-109)                       *)
(***************************************************************************)
\* lf.updateEdgePoints(edge.id, points): the host stores points on the edge
updateEdgePoints(points) ==
    /\ edge' = [edge EXCEPT !.pointsList = points]
    /\ applied' = <<points>>

\* rerouteEdge(edgeData) for the edge of the diagram.  found is FALSE when
\* the edge data has no id or the host knows no such edge model or node
\* model.  result is what calculatePath returns; sa2 and ta2 are the nodes'
\* answers to getAnchorPosition(edge.startPoint) and
\* getAnchorPosition(edge.endPoint) in the fallback branch.
rerouteEdge(found, result, sa2, ta2) ==
    IF ~found THEN UNCHANGED <<routingVars, intersectionTest>>
    ELSE /\ op' = "rerouteEdge"
         /\ calls' = calls + 1
         /\ before' = edge.pointsList
         /\ missing' = anchorMissing
         /\ newPath' = result.path
         /\ scored' = result.scored
         /\ minObstructions' = result.minObstructions
         /\ returned' = returned \cup {result.path}
         /\ IF Len(result.path) > 0
            THEN updateEdgePoints(result.path)
            ELSE IF sa2 # Undefined /\ ta2 # Undefined
            THEN updateEdgePoints(<<sa2, ta2>>)
            ELSE IF Len(edge.pointsList) = 0
            THEN updateEdgePoints(<<>>)
            ELSE /\ applied' = <<>>
                 /\ UNCHANGED edge
         /\ UNCHANGED <<plugin, allNodes, obstacleRects, intersectionTest>>

\* a handler of the plugin runs for the edge of the diagram: handleEdgeChange
\* calls rerouteEdge(data); handleGraphRendered, handleNodeAdd and
\* handleNodeMove call rerouteAllEdges, which calls rerouteEdge for every edge
\* (part_000:34-61)
handleEdgeChange ==
    \E found \in BOOLEAN :
       IF ~found
       THEN rerouteEdge(FALSE, [path |-> <<>>, scored |-> 0, minObstructions |-> Infinity],
                        Undefined, Undefined)
       ELSE \E result \in {calculatePath(edge, sourceNode, targetNode, allNodes)} :
               IF Len(result.path) > 0
               THEN rerouteEdge(TRUE, result, Undefined, Undefined)
               ELSE \E sa2 \in AnchorAnswers(sourceNode), ta2 \in AnchorAnswers(targetNode) :
                       rerouteEdge(TRUE, result, sa2, ta2)

\* an event handler of the plugin reroutes the edge
RerouteEdge ==
    /\ plugin = "AvoidanceEdgePlugin"
    /\ calls < MaxCalls
    /\ handleEdgeChange
    /\ UNCHANGED pluginVars

(***************************************************************************)
(* AvoidancePlugin.updateEdgePath (index.ts:107-217)                       *)
(***************************************************************************)
\* updateEdgePath(edgeModel) for the edge of the diagram, whose source and
\* target node models exist; obstacles is what index.ts:116-122 collects and
\* pointsList what index.ts:124-188 computes
updateEdgePath(edgeModel, obstacles, pointsList) ==
    IF ~options'.enabled THEN UNCHANGED <<routingVars, intersectionTest>>
    ELSE /\ op' = "updateEdgePath"
         /\ calls' = calls + 1
         /\ before' = edge.pointsList
         /\ missing' = (edgeModel.startPoint = Undefined \/ edgeModel.endPoint = Undefined)
         /\ IF edgeModel.startPoint = Undefined \/ edgeModel.endPoint = Undefined
            THEN /\ applied' = <<>>
                 /\ UNCHANGED <<edge, obstacleRects>>
            ELSE /\ edge' = [edge EXCEPT !.pointsList = pointsList]
                 /\ applied' = <<pointsList>>
                 /\ obstacleRects' = obstacles
         /\ UNCHANGED <<plugin, allNodes, newPath, scored, minObstructions, returned,
                        intersectionTest>>

\* updateEdgePath(edgeModel) for the edge of the diagram, as the handlers
\* (index.ts:63-105) and recalculateAllEdges (index.ts:357-369) call it once
\* this.options is what it is after the step
updateEdge ==
    IF edge.startPoint = Undefined \/ edge.endPoint = Undefined
    THEN updateEdgePath(edge, <<>>, <<>>)
    ELSE \E obstacles \in {expandedObstacles(getGraphElements, sourceNode, targetNode,
                                              options'.avoidPadding)} :
            \E pointsList \in {newPointsList(edge.startPoint, edge.endPoint, obstacles,
                                             options'.avoidPadding)} :
               updateEdgePath(edge, obstacles, pointsList)

\* an event handler of the plugin updates the edge (handleGraphRendered,
\* handleEdgeAdd, handleNodeMoveEnd, handleEdgeEndpointChange)
UpdateEdgePath ==
    /\ plugin = "AvoidancePlugin"
    /\ calls < MaxCalls
    /\ UNCHANGED pluginVars
    /\ updateEdge

Next ==
    \/ RerouteEdge
    \/ UpdateEdgePath

Spec == Init /\ [][Next]_vars

(***************************************************************************)
(* isLineIntersectingRect on its own (part_000:273-302): a segment and a   *)
(* rectangle are chosen, then the function is called on them.              *)
(***************************************************************************)
GeometryInit ==
    /\ plugin = "AvoidanceEdgePlugin"
    /\ constructor(<<>>)
    /\ allNodes = {}
    /\ edge = [sourceNodeId |-> "source", targetNodeId |-> "target",
               startPoint |-> Undefined, endPoint |-> Undefined, pointsList |-> <<>>]
    /\ before = <<>>
    /\ op = "init"
    /\ calls = 0
    /\ missing = FALSE
    /\ newPath = <<>>
    /\ scored = 0
    /\ minObstructions = Infinity
    /\ applied = <<>>
    /\ returned = {}
    /\ obstacleRects = <<>>
    /\ \E ax \in Coords, ay \in Coords, bx \in Coords, by \in Coords, r \in Rects :
          intersectionTest = [p1 |-> Point(ax, ay), p2 |-> Point(bx, by), rect |-> r,
                              called |-> FALSE, result |-> FALSE]

IsLineIntersectingRect ==
    /\ ~intersectionTest.called
    /\ intersectionTest' =
          [intersectionTest EXCEPT
              !.called = TRUE,
              !.result = isLineIntersectingRect(intersectionTest.p1, intersectionTest.p2,
                                                intersectionTest.rect)]
    /\ UNCHANGED <<routingVars, pluginVars>>

GeometryNext == IsLineIntersectingRect

GeometrySpec == GeometryInit /\ [][GeometryNext]_vars

(***************************************************************************)
(* The plugins' lifecycle: enable, disable, setOptions and the host's      *)
(* events for AvoidancePlugin (index.ts:17-105, 332-369), destroy and the  *)
(* host's events for AvoidanceEdgePlugin (part_000:15-61, 340-349), on a   *)
(* diagram of the source node, the target node at (200, 0) and at most     *)
(* the box between them.                                                   *)
(***************************************************************************)
LifecycleEnd == Point(200, 0)
LifecycleDiagrams == SUBSET {node \in OtherNodes : node.id = "box"}

LifecycleInit ==
    /\ plugin \in Plugins
    /\ \E others \in LifecycleDiagrams, sp \in {Undefined, Start},
          pl \in {<<>>, <<Start, LifecycleEnd>>}, userOptions \in UserOptions :
          /\ plugin = "AvoidanceEdgePlugin" => (pl = <<>> /\ userOptions = <<>>)
          /\ allNodes = {SourceNode(Undefined), TargetNode(LifecycleEnd, Undefined)} \cup others
          /\ edge = [sourceNodeId |-> "source", targetNodeId |-> "target",
                     startPoint |-> sp, endPoint |-> LifecycleEnd, pointsList |-> pl]
          /\ constructor(userOptions)
    /\ before = <<>>
    /\ op = "init"
    /\ calls = 0
    /\ missing = FALSE
    /\ newPath = <<>>
    /\ scored = 0
    /\ minObstructions = Infinity
    /\ applied = <<>>
    /\ returned = {}
    /\ obstacleRects = <<>>
    /\ intersectionTest = NoTest

\* enable() (index.ts:47-53)
Enable ==
    /\ plugin = "AvoidancePlugin"
    /\ request' = [name |-> "enable"]
    /\ IF ~options.enabled
       THEN /\ options' = [options EXCEPT !.enabled = TRUE]
            /\ listeners' = initialize(listeners)
       ELSE UNCHANGED <<options, listeners>>
    /\ UNCHANGED <<destroyed, routingVars, intersectionTest>>

\* disable() (index.ts:55-61)
Disable ==
    /\ plugin = "AvoidancePlugin"
    /\ request' = [name |-> "disable"]
    /\ IF options.enabled
       THEN /\ options' = [options EXCEPT !.enabled = FALSE]
            /\ listeners' = detachEvents(listeners)
       ELSE UNCHANGED <<options, listeners>>
    /\ UNCHANGED <<destroyed, routingVars, intersectionTest>>

\* recalculateAllEdges() (index.ts:357-369) for the diagram's edge, whose
\* edge model the host finds
recalculateAllEdges ==
    IF ~options'.enabled THEN UNCHANGED <<routingVars, intersectionTest>>
    ELSE updateEdge

\* setOptions(newOptions) (index.ts:332-355).  A padding that is left out
\* or 0 is falsy in "newOptions.avoidPadding && ...".
setOptions(newOptions) ==
    LET oldEnabledState == options.enabled
    IN  /\ options' = spread(options, newOptions)
        /\ UNCHANGED destroyed
        /\ IF options'.enabled /\ ~oldEnabledState
           THEN /\ listeners' = initialize(listeners)
                /\ request' = [name |-> "setOptions", oldOptions |-> options,
                               recalculated |-> TRUE]
                /\ recalculateAllEdges
           ELSE IF ~options'.enabled /\ oldEnabledState
           THEN /\ listeners' = detachEvents(listeners)
                /\ request' = [name |-> "setOptions", oldOptions |-> options,
                               recalculated |-> FALSE]
                /\ UNCHANGED <<routingVars, intersectionTest>>
           ELSE IF /\ options'.enabled /\ oldEnabledState
                   /\ "avoidPadding" \in DOMAIN newOptions
                   /\ newOptions.avoidPadding # 0
                   /\ newOptions.avoidPadding # options'.avoidPadding
           THEN /\ UNCHANGED listeners
                /\ request' = [name |-> "setOptions", oldOptions |-> options,
                               recalculated |-> TRUE]
                /\ recalculateAllEdges
           ELSE /\ UNCHANGED listeners
                /\ request' = [name |-> "setOptions", oldOptions |-> options,
                               recalculated |-> FALSE]
                /\ UNCHANGED <<routingVars, intersectionTest>>

SetOptions ==
    /\ plugin = "AvoidancePlugin"
    /\ calls < MaxCalls
    /\ \E newOptions \in UserOptions : setOptions(newOptions)

\* destroy() (part_000:340-349)
Destroy ==
    /\ plugin = "AvoidanceEdgePlugin"
    /\ listeners' = destroy(listeners)
    /\ destroyed' = TRUE
    /\ request' = [name |-> "destroy"]
    /\ UNCHANGED <<options, routingVars, intersectionTest>>

\* the host emits event: it calls the callbacks registered for it.  Every
\* handler of AvoidanceEdgePlugin reroutes the edge; every handler of
\* AvoidancePlugin returns when the plugin is disabled and else updates the
\* edge, if the host finds the edge model (or the moved node and the edge
\* among its edges).  A callback registered twice is called twice and
\* computes the same points twice over: the step routes the edge once and
\* request.handled tells the number of calls.
emit(event) ==
    LET handle(callbacks) ==
            /\ request' = [name |-> "emit", event |-> event, handled |-> Len(callbacks),
                           pointsList |-> edge.pointsList]
            /\ IF Len(callbacks) = 0
               THEN UNCHANGED <<routingVars, intersectionTest>>
               ELSE IF plugin = "AvoidanceEdgePlugin"
               THEN handleEdgeChange
               ELSE IF ~options.enabled
               THEN UNCHANGED <<routingVars, intersectionTest>>
               ELSE \E found \in BOOLEAN :
                       IF found THEN updateEdge
                       ELSE UNCHANGED <<routingVars, intersectionTest>>
    IN  /\ UNCHANGED <<options, listeners, destroyed>>
        /\ handle(SelectSeq(listeners, LAMBDA l : l.event = event))

Emit ==
    /\ calls < MaxCalls
    /\ \E event \in Events : emit(event)

LifecycleNext ==
    \/ Enable
    \/ Disable
    \/ SetOptions
    \/ Destroy
    \/ Emit

LifecycleSpec == LifecycleInit /\ [][LifecycleNext]_vars

(***************************************************************************)
(* The routing specification's terms                                       *)
(***************************************************************************)
\* calculatePath has answered the last routing request for two available anchors
routed == op = "rerouteEdge" /\ ~missing

\* the obstacles of the edge: every node but its source and its target
obstacleNodes == {node \in allNodes : node.id # edge.sourceNodeId /\ node.id # edge.targetNodeId}

\* the direct path [start, end]
direct == <<Point(startAnchor.x, startAnchor.y), Point(endAnchor.x, endAnchor.y)>>

\* the obstruction count of a path: the pairs (segment, obstacle) that intersect
pathObstructionCount(points, obstacles) ==
    Cardinality({pr \in (1..(Len(points) - 1)) \X obstacles :
                    isLineIntersectingRect(points[pr[1]], points[pr[1] + 1], getBBox(pr[2]))})

obstructionCount(points) == pathObstructionCount(points, obstacleNodes)

\* the offset lattice {0, +-20, +-40, +-60}
Lattice == {offsets[i] : i \in 1..Len(offsets)}

\* some single-bend or double-bend candidate of the lattice has an
\* obstruction count below n
BendCandidateBelow(n) ==
    \/ \E dx \in Lattice, dy \in Lattice :
          \/ obstructionCount(path1(startAnchor, endAnchor, dx, dy)) < n
          \/ obstructionCount(path2(startAnchor, endAnchor, dx, dy)) < n
    \/ \E dx1 \in Lattice, dy1 \in Lattice, dx2 \in Lattice, dy2 \in Lattice :
          obstructionCount(candidatePath(startAnchor, endAnchor, dx1, dy1, dx2, dy2)) < n

\* some candidate of the lattice, the direct path included, is clear
ClearCandidate == obstructionCount(direct) = 0 \/ BendCandidateBelow(1)

(***************************************************************************)
(* Properties                                                              *)
(***************************************************************************)
\* C1: with both anchors present, the path calculatePath returns starts at
\* the start point and ends at the end point, whichever branch produced it.
AnchorPreservation ==
    routed => /\ Len(newPath) >= 2
              /\ newPath[1] = Point(startAnchor.x, startAnchor.y)
              /\ newPath[Len(newPath)] = Point(endAnchor.x, endAnchor.y)

\* a best-effort double-bend path has been returned
AnchorPreservationWitness ==
    routed /\ Len(newPath) = 4 /\ obstructionCount(newPath) > 0

\* C2: the obstruction count (intersecting (segment, obstacle) pairs) of the
\* path calculatePath returns is at most that of the direct path [start, end].
ObstructionMonotonicity ==
    routed => obstructionCount(newPath) <= obstructionCount(direct)

\* C3: when some candidate of the lattice (direct, single-bend, double-bend)
\* is clear, calculatePath returns a clear path.
ClearCandidateReturned ==
    routed => (obstructionCount(newPath) = 0 \/ ~ClearCandidate)

\* C4: no path calculatePath returns has two consecutive equal points.
NoDuplicateConsecutivePoints ==
    routed => \A i \in 1..(Len(newPath) - 1) : newPath[i] # newPath[i + 1]

\* C5: every point list a routing request applies to the edge (by
\* lf.updateEdgePoints in rerouteEdge, by the assignment to
\* edgeModel.pointsList in updateEdgePath) has at least 2 points.
AppliedPathsHaveTwoPoints ==
    \A i \in 1..Len(applied) : Len(applied[i]) >= 2

\* C6: when no obstacle intersects the segment (start, end), calculatePath
\* returns exactly [start, end] and scores no bend candidate.
DirectWhenUnobstructed ==
    (routed /\ \A node \in obstacleNodes :
                  ~isLineIntersectingRect(startAnchor, endAnchor, getBBox(node)))
        => (newPath = direct /\ scored = 0)

\* the direct path has been returned past obstacles that miss it
DirectWhenUnobstructedWitness ==
    /\ routed
    /\ obstacleNodes # {}
    /\ startAnchor # endAnchor
    /\ \A node \in obstacleNodes :
          ~isLineIntersectingRect(startAnchor, endAnchor, getBBox(node))
    /\ newPath = direct

MissingAnchorKeepsPath ==
    (op # "init" /\ missing)
        => /\ edge.pointsList = before
           /\ \A i \in 1..Len(applied) : applied[i] = before /\ Len(applied[i]) > 0

\* C9: when the direct path is obstructed and no bend candidate of the
\* lattice has a lower obstruction count than the direct path, the direct
\* path, the earliest of the tying candidates, is returned.
TieKeepsDirect ==
    routed => (newPath = direct \/ BendCandidateBelow(obstructionCount(direct)))

\* C10: when the direct path is obstructed and no candidate of the lattice is
\* clear, calculatePath returns a path whose obstruction count no single-bend
\* or double-bend candidate of the lattice undercuts.
BestEffortIsMinimum ==
    (routed /\ obstructionCount(newPath) > 0)
        => (Len(newPath) >= 2 /\ (~BendCandidateBelow(obstructionCount(newPath)) \/ ClearCandidate))

\* the scene of one obstacle (80,-20)-(120,20) between start (0,0) and end (200,0)
BoxScene ==
    /\ startAnchor = Point(0, 0)
    /\ endAnchor = Point(200, 0)
    /\ {getBBox(node) : node \in obstacleNodes}
           = {[minX |-> 80, minY |-> -20, maxX |-> 120, maxY |-> 20]}

\* C11: for start (0,0), end (200,0) and the single obstacle (80,-20)-(120,20)
\* calculatePath returns a path whose obstruction count is 0 and that has an
\* interior point whose y is a nonzero lattice value away from 0.
BoxSceneAvoided ==
    (routed /\ BoxScene)
        => /\ obstructionCount(newPath) = 0
           /\ \E i \in 2..(Len(newPath) - 1) : newPath[i].y \in Lattice \ {0}

\* the box scene has been routed over the bend (100, 40)
BoxSceneAvoidedWitness ==
    routed /\ BoxScene /\ newPath = <<Point(0, 0), Point(100, 40), Point(200, 0)>>

\* C12: the count by which calculatePath ranked the candidate it returns is
\* the number of (consecutive point pair, obstacle) pairs of that candidate
\* whose segment intersects the obstacle's rectangle.
RankIsPairCount ==
    (routed /\ scored > 0) => minObstructions = obstructionCount(newPath)

Abs(n) == IF n >= 0 THEN n ELSE -n

\* the closed segment from a to b and the closed rectangle r share a point:
\* some a + t * (b - a) with 0 <= t <= 1 lies in r.  The t that satisfy one
\* of the four bounds form an interval whose ends are multiples of
\* 1 / (|dx| * |dy|), so it is enough to try t = n / D for n in 0..D.
SharePoint(a, b, r) ==
    LET dx == b.x - a.x
        dy == b.y - a.y
        D  == Max(1, Abs(dx)) * Max(1, Abs(dy))
    IN  \E n \in 0..D :
           /\ r.minX * D <= a.x * D + n * dx /\ a.x * D + n * dx <= r.maxX * D
           /\ r.minY * D <= a.y * D + n * dy /\ a.y * D + n * dy <= r.maxY * D

\* C13: for integer coordinates, isLineIntersectingRect(p1, p2, rect) is true
\* exactly when the closed segment and the closed rectangle share a point; a
\* zero-length segment is decided as point-in-rectangle, and swapping p1
\* and p2 does not change the result.
SegmentRectIntersection ==
    intersectionTest.called
        => LET t == intersectionTest
           IN  /\ t.result = SharePoint(t.p1, t.p2, t.rect)
               /\ t.result = isLineIntersectingRect(t.p2, t.p1, t.rect)
               /\ t.p1 = t.p2 =>
                     t.result = (/\ t.rect.minX <= t.p1.x /\ t.p1.x <= t.rect.maxX
                                 /\ t.rect.minY <= t.p1.y /\ t.p1.y <= t.rect.maxY)

\* a segment that only touches a corner of the rectangle has been found to
\* intersect it
SegmentRectIntersectionWitness ==
    /\ intersectionTest.called
    /\ intersectionTest.result
    /\ intersectionTest.p1 = Point(0, 2)
    /\ intersectionTest.p2 = Point(2, 0)
    /\ intersectionTest.rect = [minX |-> 1, minY |-> 1, maxX |-> 3, maxY |-> 3]

\* The candidates in the order of the loops of part_000:165-230: for each
\* (dx, dy) but the first, (0, 0), path1 then path2; then the double-bend
\* candidates, dy2 running fastest.
SingleBendCandidates == 2 * (Len(offsets) * Len(offsets) - 1)
DoubleBendCandidates == Len(offsets) * Len(offsets) * Len(offsets) * Len(offsets)

Candidate(k) ==
    IF k <= SingleBendCandidates
    THEN LET q == (k + 1) \div 2
             dx == offsets[(q \div Len(offsets)) + 1]
             dy == offsets[(q % Len(offsets)) + 1]
         IN  IF k % 2 = 1 THEN path1(startAnchor, endAnchor, dx, dy)
             ELSE path2(startAnchor, endAnchor, dx, dy)
    ELSE LET m == k - SingleBendCandidates - 1
             n == Len(offsets)
         IN  candidatePath(startAnchor, endAnchor,
                           offsets[(m \div (n * n * n)) + 1],
                           offsets[((m \div (n * n)) % n) + 1],
                           offsets[((m \div n) % n) + 1],
                           offsets[(m % n) + 1])

\* C14: the search stops at the first candidate whose obstruction count is
\* 0: no candidate scored before the last one was clear (so the double-bend
\* search started only after every single-bend candidate was obstructed),
\* and a search that stopped early stopped at a clear candidate, which is
\* the path returned.
StopsAtFirstClear ==
    (routed /\ scored > 0)
        => /\ \A k \in 1..(scored - 1) : obstructionCount(Candidate(k)) > 0
           /\ scored < SingleBendCandidates + DoubleBendCandidates
                 => (obstructionCount(Candidate(scored)) = 0 /\ newPath = Candidate(scored))

\* the double-bend search has run and has stopped early, at a clear candidate
StopsAtFirstClearWitness ==
    /\ routed
    /\ scored > SingleBendCandidates
    /\ scored < SingleBendCandidates + DoubleBendCandidates
    /\ obstructionCount(newPath) = 0

\* C15: a call of calculatePath scores at most 2*7*7 + 7^4 = 2499 candidate
\* paths, however many obstacles the diagram has.
ScoredCandidatesBounded ==
    op = "rerouteEdge" => scored <= 2 * 7 * 7 + 7 * 7 * 7 * 7

\* a call for a diagram of two obstacles has scored every candidate of both
\* searches
ScoredCandidatesBoundedWitness ==
    /\ routed
    /\ Cardinality(obstacleNodes) = 2
    /\ scored = SingleBendCandidates + DoubleBendCandidates

\* the box of a node, centre (x, y) with width and height, extended by
\* padding on each of its four sides
PaddedBox(node, padding) ==
    LET left   == node.x - node.width \div 2
        right  == node.x + node.width \div 2
        top    == node.y - node.height \div 2
        bottom == node.y + node.height \div 2
    IN  [x |-> left - padding, y |-> top - padding,
         width |-> (right + padding) - (left - padding),
         height |-> (bottom + padding) - (top - padding)]

\* C16: the obstacles a routing call of updateEdgePath collects are exactly
\* one rectangle per node of the diagram whose id is neither the edge's
\* source node id nor its target node id, each the node's box extended by
\* avoidPadding on its four sides.
ObstaclesAreExpandedBoxes ==
    (op = "updateEdgePath" /\ ~missing)
        => LET others == {node \in allNodes : node.id \notin {edge.sourceNodeId, edge.targetNodeId}}
           IN  /\ Len(obstacleRects) = Cardinality(others)
               /\ \A node \in others :
                     \E k \in 1..Len(obstacleRects) :
                        obstacleRects[k] = PaddedBox(node, options.avoidPadding)
               /\ \A k \in 1..Len(obstacleRects) :
                     \E node \in others :
                        obstacleRects[k] = PaddedBox(node, options.avoidPadding)

\* updateEdgePath has collected the obstacles of a loop on the source node in a
\* diagram of four nodes, with a padding of 10
ObstaclesAreExpandedBoxesWitness ==
    /\ op = "updateEdgePath"
    /\ ~missing
    /\ edge.sourceNodeId = edge.targetNodeId
    /\ Cardinality(allNodes) = 4
    /\ Len(obstacleRects) = 3
    /\ options.avoidPadding = 10

\* C17: a setOptions that finds the plugin enabled, leaves it enabled and
\* changes avoidPadding recalculates the edges' paths, with the new padding.
PaddingChangeRecalculates ==
    (/\ request.name = "setOptions"
     /\ request.oldOptions.enabled
     /\ options.enabled
     /\ options.avoidPadding # request.oldOptions.avoidPadding)
        => /\ request.recalculated
           /\ (~missing /\ op = "updateEdgePath")
                 => obstacleRects = expandedObstacles(getGraphElements, sourceNode, targetNode,
                                                      options.avoidPadding)

\* C18: after destroy() no callback is left in the host's registry, and no
\* later event calls a handler of the plugin.
DestroyDetaches ==
    destroyed => /\ listeners = <<>>
                 /\ request.name = "emit" => request.handled = 0

\* the number of registrations of the pair [event, callback]
Registrations(l) == Cardinality({i \in 1..Len(listeners) : listeners[i] = l})

\* C19: each of the five event handlers of AvoidancePlugin is registered
\* once while options.enabled is true and not at all while it is false, and
\* an event that finds the plugin disabled leaves the edge's pointsList as
\* it was.
ListenersMatchEnabled ==
    plugin = "AvoidancePlugin"
        => /\ \A event \in Events, callback \in {"this.handleGraphRendered", "this.handleEdgeAdd",
                                               "this.handleNodeMoveEnd",
                                               "this.handleEdgeEndpointChange"} :
                 Registrations([event |-> event, callback |-> callback])
                    = IF /\ options.enabled
                         /\ \/ event = "graph:rendered" /\ callback = "this.handleGraphRendered"
                            \/ event = "edge:add" /\ callback = "this.handleEdgeAdd"
                            \/ event = "node:move:end" /\ callback = "this.handleNodeMoveEnd"
                            \/ /\ event \in {"edge:change:source:end", "edge:change:target:end"}
                               /\ callback = "this.handleEdgeEndpointChange"
                      THEN 1 ELSE 0
           /\ (request.name = "emit" /\ ~options.enabled)
                 => edge.pointsList = request.pointsList

\* an event has found the plugin disabled after an earlier event had its
\* handler update the edge
ListenersMatchEnabledWitness ==
    /\ plugin = "AvoidancePlugin"
    /\ ~options.enabled
    /\ request.name = "emit"
    /\ request.event = "edge:add"
    /\ request.handled = 0
    /\ calls > 0
    /\ Len(edge.pointsList) > 2

=============================================================================
